---------------------------- MODULE Spec2Model ----------------------------
(***************************************************************************)
(* A model of the Cookies class of StorageW: the codec between the flat    *)
(* cookie string (document.cookie, read and written as one whole string)   *)
(* and arrays of cookie objects, the query functions over them, the store  *)
(* family and unravel.                                                     *)
(*                                                                         *)
(* JavaScript strings are sequences of one-character strings.  JavaScript  *)
(* values are records tagged by the field t:                               *)
(*   [t |-> "undefined"], [t |-> "null"], [t |-> "boolean", b |-> ...],    *)
(*   [t |-> "number", n |-> ...], [t |-> "string", s |-> ...],             *)
(*   [t |-> "array", e |-> <<...>>], [t |-> "regexp", src |-> ...],        *)
(*   [t |-> "object", p |-> own properties], [t |-> "cyclic"] (an object   *)
(*   that refers to itself, which JSON.stringify cannot serialise).        *)
(* A call that throws has the outcome Thrown.                              *)
(***************************************************************************)
EXTENDS Integers, Sequences, FiniteSets, TLC

VARIABLES
    cookie,         \* document.cookie, the flat store
    cookieEnabled,  \* navigator.cookieEnabled
    op,             \* the name of the last call ("none" before any call)
    arg,            \* the argument of the last call
    ret,            \* what the last call returned, or Thrown
    pre,            \* document.cookie when the last call started
    written         \* the calls that changed document.cookie, in call order

vars == <<cookie, cookieEnabled, op, arg, ret, pre, written>>

-----------------------------------------------------------------------------
(* Bounds of the model *)

\* longest flat content a store call is still made on
MaxCookieLen == 4
\* longest batch handed to storeArray, storeAll and storeArrayAsJSON
MaxBatch == 2
\* most entries of a flat content the query functions are run on
MaxEntries == 3
\* longest flat content unravel is run on
MaxLen == 5

-----------------------------------------------------------------------------
(* JavaScript strings *)

WS == {" "}

RECURSIVE TrimStart(_)
TrimStart(s) ==
    IF s # <<>> /\ Head(s) \in WS THEN TrimStart(Tail(s)) ELSE s

RECURSIVE TrimEnd(_)
TrimEnd(s) ==
    IF s # <<>> /\ s[Len(s)] \in WS THEN TrimEnd(SubSeq(s, 1, Len(s) - 1)) ELSE s

\* String.prototype.trim
trim(s) == TrimEnd(TrimStart(s))

\* String.prototype.indexOf for a one-character needle: 0-based, -1 when absent
indexOf(s, c) ==
    IF \E i \in 1..Len(s) : s[i] = c
    THEN (CHOOSE i \in 1..Len(s) : s[i] = c /\ \A j \in 1..(i - 1) : s[j] # c) - 1
    ELSE -1

\* String.prototype.substring(from) with from >= 0
substring(s, from) == SubSeq(s, from + 1, Len(s))

\* String.prototype.split for a one-character separator
RECURSIVE split(_, _)
split(s, c) ==
    LET i == indexOf(s, c)
    IN  IF i = -1 THEN <<s>>
        ELSE <<SubSeq(s, 1, i)>> \o split(substring(s, i + 1), c)

\* all strings over the characters cs of length at most n
RECURSIVE Strs(_, _)
Strs(cs, n) ==
    IF n = 0 THEN {<<>>}
    ELSE LET shorter == Strs(cs, n - 1)
         IN  shorter \cup {Append(s, c) : s \in {x \in shorter : Len(x) = n - 1}, c \in cs}

\* all sequences over the set S of length at most n
RECURSIVE SeqsUpTo(_, _)
SeqsUpTo(S, n) ==
    IF n = 0 THEN {<<>>}
    ELSE LET shorter == SeqsUpTo(S, n - 1)
         IN  shorter \cup {Append(s, x) : s \in {y \in shorter : Len(y) = n - 1}, x \in S}

-----------------------------------------------------------------------------
(* JavaScript values *)

Undefined == [t |-> "undefined"]
Null == [t |-> "null"]
True == [t |-> "boolean", b |-> TRUE]
False == [t |-> "boolean", b |-> FALSE]
Num(n) == [t |-> "number", n |-> n]
Str(s) == [t |-> "string", s |-> s]
Arr(e) == [t |-> "array", e |-> e]
RegExp(src) == [t |-> "regexp", src |-> src]
Obj(p) == [t |-> "object", p |-> p]
Cyclic == [t |-> "cyclic"]

\* the outcome of a call that raises a TypeError to its caller
Thrown == [t |-> "throw", e |-> "TypeError"]

\* the typeof operator
typeof(v) ==
    IF v.t \in {"null", "array", "regexp", "object", "cyclic"} THEN "object" ELSE v.t

\* Object.hasOwn(v, k) for v an object other than null (null throws: see the
\* callers); every object of the model has its properties in p, or none
hasOwn(v, k) == v.t = "object" /\ k \in DOMAIN v.p

\* ToBoolean
truthy(v) ==
    CASE v.t \in {"undefined", "null"} -> FALSE
      [] v.t = "boolean" -> v.b
      [] v.t = "number" -> v.n # 0
      [] v.t = "string" -> v.s # <<>>
      [] OTHER -> TRUE

\* Array.prototype.every, given what the callback gives for each element in
\* order ("true", "false" or "throw"): the elements are visited in order,
\* stopping at the first that is not true
every(results) ==
    IF \A i \in 1..Len(results) : results[i] = "true" THEN "true"
    ELSE results[CHOOSE i \in 1..Len(results) :
                    results[i] # "true" /\ \A j \in 1..(i - 1) : results[j] = "true"]

\* the cookie object literals of the class
TypeString == <<"s", "t", "r", "i", "n", "g">>
TypeContainer == <<"c", "o", "n", "t", "a", "i", "n", "e", "r">>
TypeJson == <<"j", "s", "o", "n">>

Cookie(id, type, value) == Obj([id |-> Str(id), type |-> Str(type), value |-> value])

\* RegExp.prototype.test for a pattern of plain characters: the pattern occurs
\* somewhere in the string
test(re, s) ==
    \E i \in 1..(Len(s) + 1) :
        i + Len(re.src) - 1 <= Len(s) /\ SubSeq(s, i, i + Len(re.src) - 1) = re.src

-----------------------------------------------------------------------------
(* Cookies.all *)

DecodeSegment(seg) ==
    Cookie(trim(split(seg, "=")[1]),
           TypeString,
           Str(trim(substring(seg, indexOf(seg, "=") + 1))))

all(doc) ==
    IF ~cookieEnabled THEN <<>>
    ELSE IF trim(doc) = <<>> THEN <<>>
    ELSE LET segs == split(doc, ";")
         IN  [i \in 1..Len(segs) |-> DecodeSegment(segs[i])]

-----------------------------------------------------------------------------
(* Cookies.first, firstIn, has, find, findIn *)

\* the positional branch: the index of the element in the sequence (1-based), or
\* 0 when the query is not an integer in range
IndexHit(n, query) ==
    IF query.t # "number" THEN 0
    ELSE IF query.n >= 0 /\ query.n < n THEN query.n + 1
    ELSE IF query.n < 0 /\ query.n > -n THEN n + query.n + 1
    ELSE 0

idEquals(item, query) == item.p.id = query
idMatches(item, query) == test(query, item.p.id.s)

\* the string and pattern branches: the matching elements in order, <<>> when
\* the query is neither or nothing matches
Filtered(cookies, query) ==
    IF typeof(query) = "string"
    THEN SelectSeq(cookies, LAMBDA item : idEquals(item, query))
    ELSE IF query.t = "regexp"
    THEN SelectSeq(cookies, LAMBDA item : idMatches(item, query))
    ELSE <<>>

\* firstBody returning the match of highest position
firstBody_LastMatch(cookies, query) ==
    IF IndexHit(Len(cookies), query) # 0 THEN cookies[IndexHit(Len(cookies), query)]
    ELSE IF Filtered(cookies, query) # <<>>
    THEN Filtered(cookies, query)[Len(Filtered(cookies, query))]
    ELSE Null

\* the body shared by first and firstIn once the sequence is accepted
firstBody(cookies, query) ==
    IF IndexHit(Len(cookies), query) # 0 THEN cookies[IndexHit(Len(cookies), query)]
    ELSE IF Filtered(cookies, query) # <<>> THEN Filtered(cookies, query)[1]
    ELSE Null

\* the body shared by find and findIn once the sequence is accepted
findBody(cookies, query) ==
    IF IndexHit(Len(cookies), query) # 0
    THEN Arr(<<cookies[IndexHit(Len(cookies), query)]>>)
    ELSE IF Filtered(cookies, query) # <<>> THEN Arr(Filtered(cookies, query))
    ELSE Null

first(doc, query) ==
    LET cookies == all(doc)
    IN  IF Len(cookies) # 0 THEN firstBody(cookies, query) ELSE Null

find(doc, query) ==
    LET cookies == all(doc)
    IN  IF Len(cookies) # 0 THEN findBody(cookies, query) ELSE Null

\* the callback handed to every in firstIn and findIn: a block body whose
\* expression statement is evaluated and dropped, so it returns undefined
\* (not true); Object.hasOwn throws on null
shapeCallback(c) ==
    IF typeof(c) = "object" /\ c = Null THEN "throw" ELSE "false"

\* cookies.every(cookie => {...}) of firstIn and findIn
everyShape(e) == every([k \in 1..Len(e) |-> shapeCallback(e[k])])

firstIn(cookies, query) ==
    IF cookies.t = "array" /\ Len(cookies.e) # 0
    THEN CASE everyShape(cookies.e) = "throw" -> Thrown
           [] everyShape(cookies.e) = "true" -> firstBody(cookies.e, query)
           [] OTHER -> Null
    ELSE Null

findIn(cookies, query) ==
    IF cookies.t = "array" /\ Len(cookies.e) # 0
    THEN CASE everyShape(cookies.e) = "throw" -> Thrown
           [] everyShape(cookies.e) = "true" -> findBody(cookies.e, query)
           [] OTHER -> Null
    ELSE Null

has(doc, query) ==
    LET c == first(doc, query)
    IN  IF truthy(c) /\ truthy(c.p.value) THEN True ELSE False

-----------------------------------------------------------------------------
(* JSON.stringify and JSON.parse *)

Digit == <<"0", "1", "2", "3", "4", "5", "6", "7", "8", "9">>

RECURSIVE Decimal(_)
Decimal(n) ==
    IF n < 0 THEN <<"-">> \o Decimal(-n)
    ELSE IF n < 10 THEN <<Digit[n + 1]>>
    ELSE Decimal(n \div 10) \o <<Digit[(n % 10) + 1]>>

\* a property name as a JavaScript string
KeyChars(k) ==
    CASE k = "id" -> <<"i", "d">>
      [] k = "type" -> <<"t", "y", "p", "e">>
      [] k = "value" -> <<"v", "a", "l", "u", "e">>

\* the own properties of an object in the order the class writes them
KeysOf(v) == SelectSeq(<<"id", "type", "value">>, LAMBDA k : k \in DOMAIN v.p)

RECURSIVE JoinWith(_, _)
JoinWith(parts, sep) ==
    IF parts = <<>> THEN <<>>
    ELSE IF Len(parts) = 1 THEN parts[1]
    ELSE parts[1] \o sep \o JoinWith(Tail(parts), sep)

\* JSON.stringify: Str(text), Undefined (nothing to serialise) or Thrown (a
\* cyclic structure).  The strings of the model hold no quote, backslash or
\* control character, so a string is serialised as itself between quotes.
RECURSIVE stringify(_)
stringify(v) ==
    CASE v.t = "string" -> Str(<<"\"">> \o v.s \o <<"\"">>)
      [] v.t = "number" -> Str(Decimal(v.n))
      [] v.t = "boolean" ->
            Str(IF v.b THEN <<"t", "r", "u", "e">> ELSE <<"f", "a", "l", "s", "e">>)
      [] v.t = "null" -> Str(<<"n", "u", "l", "l">>)
      [] v.t = "undefined" -> Undefined
      [] v.t = "cyclic" -> Thrown
      [] v.t = "regexp" -> Str(<<"{", "}">>)
      [] v.t = "array" ->
            LET parts == [i \in 1..Len(v.e) |-> stringify(v.e[i])]
            IN  IF \E i \in 1..Len(parts) : parts[i] = Thrown THEN Thrown
                ELSE Str(<<"[">>
                         \o JoinWith([i \in 1..Len(parts) |->
                                        IF parts[i] = Undefined
                                        THEN <<"n", "u", "l", "l">>
                                        ELSE parts[i].s], <<",">>)
                         \o <<"]">>)
      [] v.t = "object" ->
            LET keys == KeysOf(v)
                parts == [i \in 1..Len(keys) |-> stringify(v.p[keys[i]])]
                kept == SelectSeq([i \in 1..Len(keys) |-> i],
                                  LAMBDA i : parts[i] # Undefined)
            IN  IF \E i \in 1..Len(parts) : parts[i] = Thrown THEN Thrown
                ELSE Str(<<"{">>
                         \o JoinWith([j \in 1..Len(kept) |->
                                        <<"\"">> \o KeyChars(keys[kept[j]]) \o <<"\"", ":">>
                                            \o parts[kept[j]].s], <<",">>)
                         \o <<"}">>)

DigitValue(c) == (CHOOSE i \in 1..10 : Digit[i] = c) - 1

RECURSIVE NatValue(_)
NatValue(s) ==
    IF Len(s) = 1 THEN DigitValue(s[1])
    ELSE 10 * NatValue(SubSeq(s, 1, Len(s) - 1)) + DigitValue(s[Len(s)])

\* a JSON integer literal without sign: 0, or digits not starting with 0
IsNatLiteral(s) ==
    /\ s # <<>>
    /\ \A i \in 1..Len(s) : \E d \in 1..10 : Digit[d] = s[i]
    /\ (Len(s) > 1 => s[1] # "0")

\* JSON.parse on the texts of the model (digits, letters, '=', '&', ';', ' '):
\* an integer, with whitespace around it allowed, parses to its number;
\* every other such text is a SyntaxError (FALSE here)
parses(s) ==
    LET body == trim(s)
    IN  \/ IsNatLiteral(body)
        \/ body # <<>> /\ Head(body) = "-" /\ IsNatLiteral(Tail(body))

parse(s) ==
    LET body == trim(s)
    IN  IF Head(body) = "-" THEN Num(-NatValue(Tail(body))) ELSE Num(NatValue(body))

-----------------------------------------------------------------------------
(* Cookies.store, storeArray, storeAll, storeAsContainer, storeAsJSON,      *)
(* storeArrayAsJSON: each gives [ret |-> what it returns, doc |-> the       *)
(* document.cookie it leaves]                                               *)

Outcome(r, d) == [ret |-> r, doc |-> d]

\* the shape test of store, and of the callbacks of storeArray, storeAll and
\* storeAsContainer: "true", "false", or "throw" (Object.hasOwn(null, 'id'))
scalarShape(item) ==
    IF typeof(item) # "object" THEN "false"
    ELSE IF item = Null THEN "throw"
    ELSE IF /\ hasOwn(item, "id")
            /\ hasOwn(item, "value")
            /\ typeof(item.p.id) = "string"
            /\ typeof(item.p.value) = "string"
         THEN "true"
         ELSE "false"

\* items.every(item => {return (...)}) of storeArray, storeAll and
\* storeAsContainer
everyScalar(e) == every([k \in 1..Len(e) |-> scalarShape(e[k])])

\* `${item.id}=${item.value}`
pair(item) == item.p.id.s \o <<"=">> \o item.p.value.s

\* store's append with the ';' before the new entry forgotten
appendCookie_NoSeparator(cookies, addedCookie) == cookies \o addedCookie

\* store's append: nothing in between on a blank content, ';' otherwise
appendCookie(cookies, addedCookie) ==
    IF trim(cookies) = <<>> THEN cookies \o addedCookie
    ELSE cookies \o <<";">> \o addedCookie

store(doc, item) ==
    CASE scalarShape(item) = "throw" -> Outcome(Thrown, doc)
      [] scalarShape(item) = "true" -> Outcome(True, appendCookie(doc, pair(item)))
      [] OTHER -> Outcome(False, doc)

\* storeArray's append with the ';' between the entries forgotten
appendCookieArray_NoSeparator(cookies, addedCookie) ==
    IF trim(cookies) = <<>> THEN addedCookie
    ELSE cookies \o addedCookie

\* storeArray's append: a blank content is replaced
appendCookieArray(cookies, addedCookie) ==
    IF trim(cookies) = <<>> THEN addedCookie
    ELSE cookies \o <<";">> \o addedCookie

\* the forEach of storeArray
RECURSIVE appendEachArray(_, _)
appendEachArray(cookies, items) ==
    IF items = <<>> THEN cookies
    ELSE appendEachArray(appendCookieArray(cookies, pair(Head(items))), Tail(items))

storeArray(doc, items) ==
    IF typeof(items) = "object" /\ items.t = "array" /\ Len(items.e) > 0
    THEN CASE everyScalar(items.e) = "throw" -> Outcome(Thrown, doc)
           [] everyScalar(items.e) = "true" ->
                Outcome(True, appendEachArray(doc, items.e))
           [] OTHER -> Outcome(False, doc)
    ELSE Outcome(False, doc)

\* the forEach of storeAll (StorageW.js)
RECURSIVE appendEach(_, _)
appendEach(cookies, items) ==
    IF items = <<>> THEN cookies
    ELSE appendEach(appendCookie(cookies, pair(Head(items))), Tail(items))

\* storeAll (StorageW.js): an empty batch passes the test, rewrites the content
\* as it was and is reported as a failure
storeAll(doc, items) ==
    IF typeof(items) = "object" /\ items.t = "array"
    THEN CASE everyScalar(items.e) = "throw" -> Outcome(Thrown, doc)
           [] everyScalar(items.e) = "true" ->
                Outcome(IF Len(items.e) > 0 THEN True ELSE False,
                        appendEach(doc, items.e))
           [] OTHER -> Outcome(False, doc)
    ELSE Outcome(False, doc)

\* the forEach of storeAsContainer: sub-cookies joined by '&'
RECURSIVE packSubCookies(_, _)
packSubCookies(subCookieString, subCookies) ==
    IF subCookies = <<>> THEN subCookieString
    ELSE packSubCookies(
            IF trim(subCookieString) = <<>> THEN pair(Head(subCookies))
            ELSE subCookieString \o <<"&">> \o pair(Head(subCookies)),
            Tail(subCookies))

\* what storeAsContainer writes: the content read, then id=<packed>
containerWrite(cookies, cookie_) == cookies \o cookie_

storeAsContainer(doc, item) ==
    IF typeof(item) # "object" THEN Outcome(False, doc)
    ELSE IF item = Null THEN Outcome(Thrown, doc)
    ELSE IF /\ hasOwn(item, "id")
            /\ hasOwn(item, "value")
            /\ typeof(item.p.id) = "string"
            /\ typeof(item.p.value) = "object"
            /\ item.p.value.t = "array"
            /\ Len(item.p.value.e) > 0
         THEN CASE everyScalar(item.p.value.e) = "throw" -> Outcome(Thrown, doc)
                [] everyScalar(item.p.value.e) = "true" ->
                     Outcome(True,
                             containerWrite(doc,
                                 item.p.id.s \o <<"=">>
                                     \o packSubCookies(<<>>, item.p.value.e)))
                [] OTHER -> Outcome(False, doc)
         ELSE Outcome(False, doc)

storeAsJSON(doc, item) ==
    IF typeof(item) # "object" THEN Outcome(False, doc)
    ELSE IF item = Null THEN Outcome(Thrown, doc)
    ELSE IF /\ hasOwn(item, "id")
            /\ hasOwn(item, "value")
            /\ typeof(item.p.id) = "string"
         THEN IF stringify(item.p.value) = Thrown THEN Outcome(False, doc)
              ELSE store(doc, Obj([id |-> item.p.id, value |-> stringify(item.p.value)]))
         ELSE Outcome(False, doc)

\* the shape test of storeArrayAsJSON's callback
jsonShape(item) ==
    IF typeof(item) # "object" THEN "false"
    ELSE IF item = Null THEN "throw"
    ELSE IF /\ hasOwn(item, "id")
            /\ hasOwn(item, "value")
            /\ typeof(item.p.id) = "string"
            /\ typeof(item.p.value) \in {"object", "string"}
         THEN "true"
         ELSE "false"

\* items.every(item => {return (...)}) of storeArrayAsJSON
everyJson(e) == every([k \in 1..Len(e) |-> jsonShape(e[k])])

\* the forEach of storeArrayAsJSON: each item is serialised (or, when that
\* throws, taken as it is) and handed to Cookies.store, which writes
\* document.cookie; [doc |-> the content after the stores, added |-> how many
\* store accepted]
RECURSIVE storeEachAsJSON(_, _)
storeEachAsJSON(state, items) ==
    IF items = <<>> THEN state
    ELSE LET item == Head(items)
             stringifiedCookie ==
                 IF stringify(item.p.value) = Thrown THEN item.p.value
                 ELSE stringify(item.p.value)
             stored == store(state.doc, Obj([id |-> item.p.id, value |-> stringifiedCookie]))
         IN  storeEachAsJSON(
                 [doc |-> stored.doc,
                  added |-> state.added + (IF stored.ret = True THEN 1 ELSE 0)],
                 Tail(items))

\* what storeArrayAsJSON assigns to document.cookie after the forEach: the
\* content it read before it
jsonBatchWrite(cookies, stored) == cookies

storeArrayAsJSON(doc, items) ==
    IF typeof(items) = "object" /\ items.t = "array" /\ Len(items.e) > 0
    THEN CASE everyJson(items.e) = "throw" -> Outcome(Thrown, doc)
           [] everyJson(items.e) = "true" ->
                LET after == storeEachAsJSON([doc |-> doc, added |-> 0], items.e)
                IN  Outcome(IF Len(items.e) = after.added THEN True ELSE False,
                            jsonBatchWrite(doc, after.doc))
           [] OTHER -> Outcome(True, doc)
    ELSE Outcome(True, doc)

-----------------------------------------------------------------------------
(* Cookies.unravel *)

ModeAll == Str(<<"a", "l", "l">>)
ModeNone == Str(<<"n", "o", "n", "e">>)
ModeJson == Str(TypeJson)
ModeContainer == Str(TypeContainer)
ModeString == Str(TypeString)

\* ['all'|'none'|'json'|'container'].includes(cookieType): the bitwise or of
\* the four strings is the number 0
inModeList(cookieType) == cookieType = Num(0)

\* whether the identifier parsedType, read by the object literal of the JSON
\* pass, is declared anywhere: it is not, so reading it is a ReferenceError
\* inside the try block
parsedTypeDeclared == FALSE

\* the callback of the JSON pass: the try block and its catch
jsonPass(cookie_) ==
    IF parses(cookie_.p.value.s) /\ parsedTypeDeclared
    THEN Obj([id |-> cookie_.p.id, type |-> ModeJson, value |-> parse(cookie_.p.value.s)])
    ELSE cookie_

\* the test of the container pass without its test of every segment
isContainer_AnySegment(cookie_) ==
    /\ typeof(cookie_.p.value) = "string"
    /\ indexOf(cookie_.p.value.s, "=") # -1
    /\ indexOf(cookie_.p.value.s, "&") # -1

\* the test of the container pass
isContainer(cookie_) ==
    /\ typeof(cookie_.p.value) = "string"
    /\ indexOf(cookie_.p.value.s, "=") # -1
    /\ indexOf(cookie_.p.value.s, "&") # -1
    /\ \A i \in 1..Len(split(cookie_.p.value.s, "&")) :
            Len(split(split(cookie_.p.value.s, "&")[i], "=")) = 2

\* the sub-cookie made of one '&'-delimited segment
subCookie(value) ==
    IF indexOf(value, "=") # -1
    THEN Cookie(split(value, "=")[1],
                TypeString,
                Str(trim(substring(value, indexOf(value, "=") + 1))))
    ELSE Cookie(value, TypeString, Str(<<>>))

\* the callback of the container pass
containerPass(cookie_) ==
    IF isContainer(cookie_)
    THEN LET segs == split(cookie_.p.value.s, "&")
         IN  Obj([id |-> cookie_.p.id,
                  type |-> ModeContainer,
                  value |-> Arr([i \in 1..Len(segs) |-> subCookie(segs[i])])])
    ELSE cookie_

\* whether the JSON pass, and the container pass, run under a cookieType
runsJsonPass(cookieType) == cookieType # ModeString /\ cookieType # ModeContainer
runsContainerPass(cookieType) == cookieType # ModeString /\ cookieType # ModeJson

unravel(doc, given) ==
    LET cookieType == IF given = Undefined THEN ModeAll ELSE given
        cookies == all(doc)
        afterJson ==
            IF runsJsonPass(cookieType)
            THEN [i \in 1..Len(cookies) |-> jsonPass(cookies[i])]
            ELSE cookies
        afterContainer ==
            IF runsContainerPass(cookieType)
            THEN [i \in 1..Len(afterJson) |-> containerPass(afterJson[i])]
            ELSE afterJson
    IN  IF typeof(cookieType) # "string" /\ ~inModeList(cookieType) THEN Undefined
        ELSE Arr(afterContainer)

\* all and unravel of StorageW.js: cookie objects without a type, every value
\* that parses replaced by what it parses to
all_W(doc) ==
    LET cookies == all(doc)
    IN  [i \in 1..Len(cookies) |->
            Obj([id |-> cookies[i].p.id, value |-> cookies[i].p.value])]

unravel_W(doc) ==
    LET cookies == all_W(doc)
    IN  Arr([i \in 1..Len(cookies) |->
                IF parses(cookies[i].p.value.s)
                THEN Obj([id |-> cookies[i].p.id, value |-> parse(cookies[i].p.value.s)])
                ELSE cookies[i]])

-----------------------------------------------------------------------------
(* The calls of the query functions *)

\* A call reads document.cookie and navigator.cookieEnabled and nothing of the
\* call before it, so a state whose last call left the content as it found it
\* has exactly the successors of the state that call was made in: calls are
\* followed from the initial states and from the states whose content is new,
\* which reaches the same states.
NewContent == op = "none" \/ cookie # pre

Record(o, a, r) ==
    /\ NewContent
    /\ op' = o
    /\ arg' = a
    /\ ret' = r
    /\ pre' = cookie

CallFirst(query) ==
    /\ Record("first", query, first(cookie, query))
    /\ UNCHANGED <<cookie, cookieEnabled, written>>

CallFind(query) ==
    /\ Record("find", query, find(cookie, query))
    /\ UNCHANGED <<cookie, cookieEnabled, written>>

CallHas(query) ==
    /\ Record("has", query, has(cookie, query))
    /\ UNCHANGED <<cookie, cookieEnabled, written>>

CallFirstIn(cookies, query) ==
    /\ Record("firstIn", [cookies |-> cookies, query |-> query], firstIn(cookies, query))
    /\ UNCHANGED <<cookie, cookieEnabled, written>>

CallFindIn(cookies, query) ==
    /\ Record("findIn", [cookies |-> cookies, query |-> query], findIn(cookies, query))
    /\ UNCHANGED <<cookie, cookieEnabled, written>>

\* the flat contents the query functions are run on: up to MaxEntries entries
\* id=value joined by ';'
QueryIds == {<<"a">>, <<"b">>}
QueryValues == {<<"1">>, <<>>}

RECURSIVE Flat(_)
Flat(entries) ==
    IF entries = <<>> THEN <<>>
    ELSE IF Len(entries) = 1 THEN entries[1][1] \o <<"=">> \o entries[1][2]
    ELSE entries[1][1] \o <<"=">> \o entries[1][2] \o <<";">> \o Flat(Tail(entries))

QueryCookies == {Flat(es) : es \in SeqsUpTo(QueryIds \X QueryValues, MaxEntries)}

Queries ==
    {Num(n) : n \in (-(MaxEntries + 1))..(MaxEntries + 1)}
        \cup {Str(s) : s \in QueryIds \cup {<<"c">>}}
        \cup {RegExp(<<"a">>), RegExp(<<>>)}
        \cup {Null, Undefined, True, Obj(<<>>)}

\* the sequences handed to firstIn and findIn from outside
ForeignCookies ==
    {Null, Undefined, Str(<<"a">>), Arr(<<>>), Arr(<<Null>>),
     Arr(<<Cookie(<<"a">>, TypeString, Str(<<"1">>))>>),
     Arr(<<Str(<<"a">>), Null>>)}

ForeignQueries == {Num(0), Str(<<"a">>)}

InitQuery ==
    /\ cookie \in QueryCookies
    /\ cookieEnabled \in BOOLEAN
    /\ op = "none"
    /\ arg = Undefined
    /\ ret = Undefined
    /\ pre = cookie
    /\ written = <<>>

NextQuery ==
    \/ \E q \in Queries : CallFirst(q)
    \/ \E q \in Queries : CallFind(q)
    \/ \E q \in Queries : CallHas(q)
    \/ \E q \in Queries : CallFirstIn(Arr(all(cookie)), q)
    \/ \E q \in Queries : CallFindIn(Arr(all(cookie)), q)
    \/ \E c \in ForeignCookies, q \in ForeignQueries : CallFirstIn(c, q)
    \/ \E c \in ForeignCookies, q \in ForeignQueries : CallFindIn(c, q)

SpecQuery == InitQuery /\ [][NextQuery]_vars

-----------------------------------------------------------------------------
(* The calls of unravel *)

CallUnravel(cookieType) ==
    /\ Record("unravel", cookieType, unravel(cookie, cookieType))
    /\ UNCHANGED <<cookie, cookieEnabled, written>>

CallUnravel_W ==
    /\ Record("unravel_W", Undefined, unravel_W(cookie))
    /\ UNCHANGED <<cookie, cookieEnabled, written>>

\* the flat contents unravel is run on: every text of at most MaxLen characters
UnravelChars == {"5", "=", "&", ";", " "}
UnravelCookies == Strs(UnravelChars, MaxLen)

CookieTypes ==
    {Undefined, ModeAll, ModeNone, ModeJson, ModeContainer, ModeString, Num(0), Num(1), Null}

InitUnravel ==
    /\ cookie \in UnravelCookies
    /\ cookieEnabled \in BOOLEAN
    /\ op = "none"
    /\ arg = Undefined
    /\ ret = Undefined
    /\ pre = cookie
    /\ written = <<>>

NextUnravel ==
    \/ \E m \in CookieTypes : CallUnravel(m)
    \/ CallUnravel_W

SpecUnravel == InitUnravel /\ [][NextUnravel]_vars

-----------------------------------------------------------------------------
(* The calls of the store family *)

Write(o, a, out) ==
    /\ Len(cookie) <= MaxCookieLen
    /\ Record(o, a, out.ret)
    /\ cookie' = out.doc
    /\ written' = IF out.doc # cookie
                  THEN Append(written, [op |-> o, arg |-> a])
                  ELSE written
    /\ UNCHANGED cookieEnabled

CallStore(item) == Write("store", item, store(cookie, item))
CallStoreArray(items) == Write("storeArray", items, storeArray(cookie, items))
CallStoreAll(items) == Write("storeAll", items, storeAll(cookie, items))
CallStoreAsContainer(item) ==
    Write("storeAsContainer", item, storeAsContainer(cookie, item))
CallStoreAsJSON(item) == Write("storeAsJSON", item, storeAsJSON(cookie, item))
CallStoreArrayAsJSON(items) ==
    Write("storeArrayAsJSON", items, storeArrayAsJSON(cookie, items))

Item(id, value) == Obj([id |-> id, value |-> value])

\* the ids and values of the entries handed to store
FieldStrs == {<<>>, <<"a">>, <<"b">>, <<" ", "a">>, <<"a", ";">>, <<"=">>}

ScalarItems == {Item(Str(i), Str(v)) : i \in FieldStrs, v \in FieldStrs}

\* arguments that are no cookie object of the shape asked for
Malformed ==
    {Null, Undefined, Str(<<"a">>), Num(5), Arr(<<>>), Obj(<<>>),
     Obj([id |-> Str(<<"a">>)]),
     Obj([value |-> Str(<<"1">>)]),
     Item(Num(5), Str(<<"1">>)),
     Item(Str(<<"a">>), Num(5)),
     Item(Str(<<"a">>), Undefined)}

\* the elements of the batches
BatchItems ==
    {Item(Str(<<"a">>), Str(<<"1">>)),
     Item(Str(<<"b">>), Str(<<>>)),
     Item(Str(<<" ", "a">>), Str(<<"1", " ">>)),
     Null,
     Obj([id |-> Str(<<"a">>)]),
     Item(Str(<<"a">>), Num(5))}

Batches ==
    {Arr(e) : e \in SeqsUpTo(BatchItems, MaxBatch)}
        \cup {Null, Undefined, Str(<<"a">>), Item(Str(<<"a">>), Str(<<"1">>))}

\* the values handed to storeAsJSON
JsonValues ==
    {Str(<<"a">>), Num(5), Null, Undefined, Cyclic, Arr(<<Str(<<"a">>), Num(5)>>),
     Obj([id |-> Str(<<"a">>), value |-> Num(5)])}

JsonItems == {Item(Str(<<"a">>), v) : v \in JsonValues} \cup Malformed

JsonBatchItems ==
    {Item(Str(<<"a">>), Str(<<"1">>)),
     Item(Str(<<"b">>), Arr(<<Num(5)>>)),
     Item(Str(<<"a">>), Cyclic),
     Null,
     Obj([id |-> Str(<<"a">>)]),
     Item(Str(<<"a">>), Num(5))}

JsonBatches ==
    {Arr(e) : e \in SeqsUpTo(JsonBatchItems, MaxBatch)}
        \cup {Null, Undefined, Str(<<"a">>), Item(Str(<<"a">>), Str(<<"1">>))}

\* the sub-cookies of the containers
SubItems ==
    {Item(Str(<<"x">>), Str(<<"1">>)),
     Item(Str(<<"y">>), Str(<<" ", "2">>)),
     Null,
     Item(Str(<<"x">>), Num(5))}

ContainerItems ==
    {Item(Str(<<"c">>), Arr(e)) : e \in SeqsUpTo(SubItems, MaxBatch)}
        \cup {Item(Num(5), Arr(<<Item(Str(<<"x">>), Str(<<"1">>))>>)),
              Item(Str(<<"c">>), Null),
              Item(Str(<<"c">>), Str(<<"x", "=", "1">>))}
        \cup Malformed

Init ==
    /\ cookie = <<>>
    /\ cookieEnabled \in BOOLEAN
    /\ op = "none"
    /\ arg = Undefined
    /\ ret = Undefined
    /\ pre = cookie
    /\ written = <<>>

Next ==
    \/ \E item \in ScalarItems \cup Malformed : CallStore(item)
    \/ \E items \in Batches : CallStoreArray(items)
    \/ \E items \in Batches : CallStoreAll(items)
    \/ \E item \in ContainerItems : CallStoreAsContainer(item)
    \/ \E item \in JsonItems : CallStoreAsJSON(item)
    \/ \E items \in JsonBatches : CallStoreArrayAsJSON(items)

Spec == Init /\ [][Next]_vars

-----------------------------------------------------------------------------
(* What the claims speak of *)

Has(s, c) == \E i \in 1..Len(s) : s[i] = c
CountChar(s, c) == Cardinality({i \in 1..Len(s) : s[i] = c})

\* a Scalar-shaped entry: an object with a string id and a string value
IsScalarEntry(item) ==
    /\ item.t = "object"
    /\ {"id", "value"} \subseteq DOMAIN item.p
    /\ item.p.id.t = "string"
    /\ item.p.value.t = "string"

IsScalarBatch(items) ==
    items.t = "array" /\ \A i \in 1..Len(items.e) : IsScalarEntry(items.e[i])

\* the entries decode is to give back for a batch of Scalar entries
EntriesOf(items) ==
    [i \in 1..Len(items.e) |->
        Cookie(items.e[i].p.id.s, TypeString, items.e[i].p.value)]

NoDelimiter(s) == ~Has(s, ";") /\ ~Has(s, "=")
NoPadding(s) == trim(s) = s

\* C1 as the spec states it: from an empty flat content of an enabled store,
\* storeArray (storeAll) of Scalar entries whose ids and values hold no ';' and
\* no '=' followed by all() gives back exactly those entries, in order, each of
\* type string.
C1_RoundTripAnyCharacters ==
    (/\ op \in {"storeArray", "storeAll"}
     /\ pre = <<>>
     /\ cookieEnabled
     /\ IsScalarBatch(arg)
     /\ \A i \in 1..Len(arg.e) :
            NoDelimiter(arg.e[i].p.id.s) /\ NoDelimiter(arg.e[i].p.value.s))
        => all(cookie) = EntriesOf(arg)

\* C1, amended: the round trip holds when, besides holding no ';' and no '=',
\* no id and no value starts or ends with whitespace (all() trims both).
C1_RoundTrip ==
    (/\ op \in {"storeArray", "storeAll"}
     /\ pre = <<>>
     /\ cookieEnabled
     /\ IsScalarBatch(arg)
     /\ \A i \in 1..Len(arg.e) :
            /\ NoDelimiter(arg.e[i].p.id.s) /\ NoDelimiter(arg.e[i].p.value.s)
            /\ NoPadding(arg.e[i].p.id.s) /\ NoPadding(arg.e[i].p.value.s))
        => all(cookie) = EntriesOf(arg)

\* C1's case: storeArray has stored two distinct unpadded entries in the empty
\* store and all() gives them back
C1_Witness ==
    /\ op = "storeArray"
    /\ pre = <<>>
    /\ cookieEnabled
    /\ ret = True
    /\ IsScalarBatch(arg)
    /\ Len(arg.e) = 2
    /\ arg.e[1] # arg.e[2]
    /\ \A i \in 1..2 : NoPadding(arg.e[i].p.id.s) /\ NoPadding(arg.e[i].p.value.s)
    /\ Len(all(cookie)) = 2
    /\ all(cookie) = EntriesOf(arg)

\* C2: on a content that decodes to N >= 1 entries, the index queries N and
\* -(N+1) resolve to absent, and the index queries 0 and -N both resolve to the
\* first entry (first returns it, find returns it alone in an array).
C2_IndexBoundary ==
    LET N == Len(all(cookie))
    IN  (op \in {"first", "find"} /\ N >= 1 /\ arg.t = "number")
            => /\ arg.n \in {N, -(N + 1)} => ret = Null
               /\ arg.n \in {0, -N} =>
                    ret = IF op = "first" THEN all(cookie)[1] ELSE Arr(<<all(cookie)[1]>>)

\* C3: firstIn and findIn, handed the sequence all() returns, give what first
\* and find give for the same query.
C3_SameOnDecoded ==
    /\ (op = "firstIn" /\ arg.cookies = Arr(all(cookie)))
            => ret = first(cookie, arg.query)
    /\ (op = "findIn" /\ arg.cookies = Arr(all(cookie)))
            => ret = find(cookie, arg.query)

\* a valid container entry: a string id and a non-empty array of Scalar entries
IsContainerEntry(item) ==
    /\ item.t = "object"
    /\ {"id", "value"} \subseteq DOMAIN item.p
    /\ item.p.id.t = "string"
    /\ IsScalarBatch(item.p.value)
    /\ Len(item.p.value.e) > 0

\* subid=subvalue of every sub-entry, joined by '&'
Packed(item) ==
    JoinWith([i \in 1..Len(item.p.value.e) |-> pair(item.p.value.e[i])], <<"&">>)

\* C4: after storeAsContainer of a valid container entry the content is the
\* content before it, a ';' when that was not empty, and id=<packed>.
C4_ContainerAppends ==
    (op = "storeAsContainer" /\ IsContainerEntry(arg))
        => cookie = pre \o (IF pre # <<>> THEN <<";">> ELSE <<>>)
                        \o arg.p.id.s \o <<"=">> \o Packed(arg)

\* C5: under the default, 'all' and 'json', every decoded entry whose value
\* parses as JSON is returned with type json and the parsed value, and under
\* 'json' every other entry is returned as decoded.
C5_JsonPass ==
    (op = "unravel" /\ arg \in {Undefined, ModeAll, ModeJson})
        => /\ ret.t = "array"
           /\ Len(ret.e) = Len(all(cookie))
           /\ \A i \in 1..Len(all(cookie)) :
                LET c == all(cookie)[i]
                IN  IF parses(c.p.value.s)
                    THEN ret.e[i] = Obj([id |-> c.p.id, type |-> ModeJson,
                                         value |-> parse(c.p.value.s)])
                    ELSE arg = ModeJson => ret.e[i] = c

\* C6: under 'none' and 'json' no entry of the result is a container, and
\* under 'none' the result is the decoded sequence itself.
C6_ModeGating ==
    (op = "unravel" /\ arg \in {ModeNone, ModeJson})
        => /\ ret.t = "array"
           /\ \A i \in 1..Len(ret.e) : ret.e[i].p.type # ModeContainer
           /\ arg = ModeNone => ret.e = all(cookie)

\* the '&'-delimited segments of a value, in order
RECURSIVE SegmentsOf(_)
SegmentsOf(v) ==
    IF ~Has(v, "&") THEN <<v>>
    ELSE LET k == CHOOSE i \in 1..Len(v) : v[i] = "&" /\ \A j \in 1..(i - 1) : v[j] # "&"
         IN  <<SubSeq(v, 1, k - 1)>> \o SegmentsOf(SubSeq(v, k + 1, Len(v)))

\* at least one '&', and exactly one '=' in every segment
Qualifies(v) ==
    /\ Has(v, "&")
    /\ \A i \in 1..Len(SegmentsOf(v)) : CountChar(SegmentsOf(v)[i], "=") = 1

BeforeEquals(seg) == SubSeq(seg, 1, (CHOOSE i \in 1..Len(seg) : seg[i] = "=") - 1)
AfterEquals(seg) == SubSeq(seg, (CHOOSE i \in 1..Len(seg) : seg[i] = "=") + 1, Len(seg))

\* the result C7 describes for one decoded entry, the value of a sub-entry
\* being the text after the '=' of its segment, trimmed or as it is
Unravelled(c, trimmed) ==
    IF Qualifies(c.p.value.s)
    THEN Obj([id |-> c.p.id,
              type |-> ModeContainer,
              value |-> Arr([i \in 1..Len(SegmentsOf(c.p.value.s)) |->
                               Cookie(BeforeEquals(SegmentsOf(c.p.value.s)[i]),
                                      TypeString,
                                      Str(IF trimmed
                                          THEN trim(AfterEquals(SegmentsOf(c.p.value.s)[i]))
                                          ELSE AfterEquals(SegmentsOf(c.p.value.s)[i])))])])
    ELSE c

\* C7 as the spec states it: under 'container' an entry becomes a container
\* exactly when its value qualifies, its sub-entries then being id = the text
\* before the '=' and value = the text after it, one per segment in order;
\* every other entry stays as decoded; count and order are those of all().
C7_ContainerVerbatim ==
    (op = "unravel" /\ arg = ModeContainer)
        => /\ ret.t = "array"
           /\ Len(ret.e) = Len(all(cookie))
           /\ \A i \in 1..Len(ret.e) : ret.e[i] = Unravelled(all(cookie)[i], FALSE)

\* C7, amended: the value of a sub-entry is the text after the '=' with the
\* whitespace around it removed.
C7_ContainerDetection ==
    (op = "unravel" /\ arg = ModeContainer)
        => /\ ret.t = "array"
           /\ Len(ret.e) = Len(all(cookie))
           /\ \A i \in 1..Len(ret.e) : ret.e[i] = Unravelled(all(cookie)[i], TRUE)
           /\ \A i \in 1..Len(ret.e) :
                ret.e[i].p.type = ModeContainer <=> Qualifies(all(cookie)[i].p.value.s)

\* C7's case: under 'container' a content of two entries, one that qualifies
\* and has become a container of two sub-entries, one that does not
C7_Witness ==
    /\ op = "unravel"
    /\ arg = ModeContainer
    /\ ret.t = "array"
    /\ Len(ret.e) = 2
    /\ \E i, j \in 1..2 :
        /\ ret.e[i].p.type = ModeContainer
        /\ Len(ret.e[i].p.value.e) = 2
        /\ ret.e[j].p.type = ModeString

\* C8: a batch with an element that is not Scalar-shaped makes storeArray
\* (storeAll) return false and leaves the content as it was.
C8_BatchAtomicity ==
    (/\ op \in {"storeArray", "storeAll"}
     /\ arg.t = "array"
     /\ \E i \in 1..Len(arg.e) : ~IsScalarEntry(arg.e[i]))
        => ret = False /\ cookie = pre

\* an entry storeAsJSON accepts: an object with a string id and a value
IsJsonEntry(item) ==
    /\ item.t = "object"
    /\ {"id", "value"} \subseteq DOMAIN item.p
    /\ item.p.id.t = "string"

\* an element storeArrayAsJSON accepts: a string id and a string or object value
IsJsonBatchEntry(item) ==
    IsJsonEntry(item) /\ typeof(item.p.value) \in {"object", "string"}

\* the malformed arguments of each store call
IsMalformed(o, a) ==
    CASE o = "store" -> ~IsScalarEntry(a)
      [] o \in {"storeArray", "storeAll"} ->
            ~(IsScalarBatch(a) /\ Len(a.e) > 0)
      [] o = "storeAsContainer" -> ~IsContainerEntry(a)
      [] o = "storeAsJSON" -> ~IsJsonEntry(a)
      [] o = "storeArrayAsJSON" ->
            ~(/\ a.t = "array"
              /\ Len(a.e) > 0
              /\ \A i \in 1..Len(a.e) : IsJsonBatchEntry(a.e[i]))
      [] OTHER -> FALSE

\* null as the argument, as an element of the batch or as a sub-entry
HoldsNull(a) ==
    \/ a = Null
    \/ a.t = "array" /\ \E i \in 1..Len(a.e) : a.e[i] = Null
    \/ /\ a.t = "object"
       /\ "value" \in DOMAIN a.p
       /\ a.p.value.t = "array"
       /\ \E i \in 1..Len(a.p.value.e) : a.p.value.e[i] = Null

\* C9: every store call handed a malformed argument returns false and leaves
\* the content as it was.  (Stated for the arguments that hold no null: those
\* are C10's.)
C9_ShapeValidation ==
    (IsMalformed(op, arg) /\ ~HoldsNull(arg)) => ret = False /\ cookie = pre

\* C10: no call throws.
C10_NeverThrows == ret # Thrown

\* the positions of the decoded entries whose id equals the string q
PositionsOf(entries, q) ==
    {i \in 1..Len(entries) : entries[i].p.id.s = q}

\* the k-th lowest position of a set of positions
KthLowest(positions, k) ==
    CHOOSE i \in positions : Cardinality({j \in positions : j < i}) = k - 1

\* C11: on the decoded sequence and a string query q, first returns the entry
\* of lowest position whose id equals q, find returns every entry whose id
\* equals q in the original order with first(q) as its first element, and
\* both return null when no id equals q.
C11_FirstVersusFind ==
    (op \in {"first", "find"} /\ arg.t = "string") =>
        LET entries == all(cookie)
            hits == PositionsOf(entries, arg.s)
        IN  IF hits = {} THEN ret = Null
            ELSE IF op = "first"
            THEN ret = entries[KthLowest(hits, 1)]
            ELSE /\ ret.t = "array"
                 /\ Len(ret.e) = Cardinality(hits)
                 /\ \A k \in 1..Len(ret.e) :
                        ret.e[k] = entries[KthLowest(hits, k)]
                 /\ ret.e[1] = first(cookie, arg)

\* first("a") on a=1;b=;a= is the entry at position 1, not the one at 3
C11_Witness ==
    /\ op = "first"
    /\ arg = Str(<<"a">>)
    /\ PositionsOf(all(cookie), <<"a">>) = {1, 3}
    /\ all(cookie)[1] # all(cookie)[3]
    /\ ret = all(cookie)[1]

\* a Scalar-shaped entry whose id and value hold no ';', no '=' and no
\* surrounding whitespace
IsPlainEntry(item) ==
    /\ IsScalarEntry(item)
    /\ NoDelimiter(item.p.id.s) /\ NoDelimiter(item.p.value.s)
    /\ NoPadding(item.p.id.s) /\ NoPadding(item.p.value.s)

\* the content was built from the empty one by store calls with such entries
OnlyPlainStores ==
    \A i \in 1..Len(written) :
        written[i].op = "store" /\ IsPlainEntry(written[i].arg)

\* the entries handed to the calls that built the content, in call order
StoredEntries ==
    EntriesOf(Arr([i \in 1..Len(written) |-> written[i].arg]))

\* C12: from the empty content of an enabled store, after any sequence of
\* store calls with Scalar-shaped entries whose ids and values hold no ';',
\* no '=' and no surrounding whitespace, all() returns exactly the stored
\* entries in call order; each such call returns true, makes the decoded
\* sequence one longer and leaves the entries decoded before it as they were.
C12_StoreOnlyAppends ==
    (cookieEnabled /\ OnlyPlainStores) =>
        /\ all(cookie) = StoredEntries
        /\ (op = "store" /\ IsPlainEntry(arg)) =>
              /\ ret = True
              /\ Len(all(cookie)) = Len(all(pre)) + 1
              /\ \A i \in 1..Len(all(pre)) : all(cookie)[i] = all(pre)[i]
              /\ all(cookie)[Len(all(cookie))]
                    = Cookie(arg.p.id.s, TypeString, arg.p.value)

\* three store calls in a row from the empty content, the entries not all
\* the same, and all() returns the three
C12_Witness ==
    /\ cookieEnabled
    /\ OnlyPlainStores
    /\ Len(written) = 3
    /\ written[1].arg.p.id = Str(<<"a">>)
    /\ written[1].arg # written[3].arg
    /\ op = "store"
    /\ arg = written[3].arg
    /\ ret = True
    /\ Len(all(cookie)) = 3
    /\ all(pre) = SubSeq(all(cookie), 1, 2)

\* the content with one `id=<serialized value>` entry per item appended in
\* the given order, ';' between the entries
RECURSIVE WithSerialized(_, _)
WithSerialized(content, items) ==
    IF items = <<>> THEN content
    ELSE LET entry == Head(items).p.id.s \o <<"=">>
                        \o stringify(Head(items).p.value).s
         IN  WithSerialized(
                 IF content = <<>> THEN entry ELSE content \o <<";">> \o entry,
                 Tail(items))

\* C13: whenever storeArrayAsJSON returns true for a non-empty batch of
\* entries it accepts, the content after the call is the content before it
\* with one `id=<serialized value>` entry per item appended in the given
\* order, and all() returns one entry more per item.
C13_CommitsWhatItReports ==
    (/\ op = "storeArrayAsJSON"
     /\ ret = True
     /\ arg.t = "array"
     /\ Len(arg.e) > 0
     /\ \A i \in 1..Len(arg.e) : IsJsonBatchEntry(arg.e[i]))
        => /\ cookie = WithSerialized(pre, arg.e)
           /\ cookieEnabled => Len(all(cookie)) = Len(all(pre)) + Len(arg.e)

=============================================================================
